---- MODULE Spec2Model ----
(***************************************************************************)
(* Model of IDCardToolkit (src/id_card_toolkit.py): the identity-number    *)
(* codec (checksum, validate), the parser, the generator (guess) and the   *)
(* batch analyzer.  A Python str is a sequence of one-character strings;   *)
(* a call that raises is a result record whose exc field names the         *)
(* exception.                                                              *)
(***************************************************************************)
EXTENDS Integers, Sequences, FiniteSets, TLC

VARIABLES area_codes, now, op, arg, ret

vars == <<area_codes, now, op, arg, ret>>

(***************************************************************************)
(* Python str primitives                                                   *)
(***************************************************************************)
DigitChars == <<"0", "1", "2", "3", "4", "5", "6", "7", "8", "9">>

IsDigitChar(c) == \E i \in 1..10 : DigitChars[i] = c

\* int(c) for a one-character decimal digit
DigitVal(c) == (CHOOSE i \in 1..10 : DigitChars[i] = c) - 1

\* str.isdigit(): non-empty and every character a digit
isdigit(s) == Len(s) > 0 /\ \A i \in 1..Len(s) : IsDigitChar(s[i])

IsSpace(c) == c = " "

RECURSIVE lstrip(_)
lstrip(s) == IF s # <<>> /\ IsSpace(Head(s)) THEN lstrip(Tail(s)) ELSE s

RECURSIVE rstrip(_)
rstrip(s) ==
    IF s # <<>> /\ IsSpace(s[Len(s)]) THEN rstrip(SubSeq(s, 1, Len(s) - 1)) ELSE s

\* str.strip()
strip(s) == rstrip(lstrip(s))

\* the lower-case letters of the model's alphabet
UpperChar(c) == IF c = "x" THEN "X" ELSE IF c = "m" THEN "M"
                ELSE IF c = "f" THEN "F" ELSE c

\* str.upper()
upper(s) == [i \in 1..Len(s) |-> UpperChar(s[i])]

\* s[a:b] with 0 <= a <= b (Python slice, clipped to the string)
Slice(s, a, b) ==
    LET hi == IF b < Len(s) THEN b ELSE Len(s)
    IN  IF a >= hi THEN <<>> ELSE SubSeq(s, a + 1, hi)

\* s[i] with 0 <= i < len(s)
At(s, i) == s[i + 1]

\* s[-1] of a non-empty string
Last(s) == s[Len(s)]

\* the decimal digits of n >= 0, most significant first
RECURSIVE Decimal(_)
Decimal(n) == IF n < 10 THEN <<DigitChars[n + 1]>>
              ELSE Decimal(n \div 10) \o <<DigitChars[(n % 10) + 1]>>

RECURSIVE ZeroPad(_, _)
ZeroPad(s, w) == IF Len(s) >= w THEN s ELSE ZeroPad(<<"0">> \o s, w)

\* f"{n:0wd}"
Fmt(n, w) == ZeroPad(Decimal(n), w)

\* int(s) for a string of decimal digits
RECURSIVE DigitsToInt(_)
DigitsToInt(s) == IF s = <<>> THEN 0
                  ELSE 10 * DigitsToInt(SubSeq(s, 1, Len(s) - 1)) + DigitVal(s[Len(s)])

\* int(s): surrounding whitespace is ignored, anything but digits raises
int(s) == LET t == strip(s)
          IN  IF isdigit(t) THEN [exc |-> "none", val |-> DigitsToInt(t)]
              ELSE [exc |-> "ValueError", val |-> 0]

(***************************************************************************)
(* datetime                                                                *)
(***************************************************************************)
IsLeap(y) == (y % 4 = 0 /\ y % 100 # 0) \/ y % 400 = 0

DaysInMonth(y, m) ==
    IF m = 2 THEN (IF IsLeap(y) THEN 29 ELSE 28)
    ELSE IF m \in {4, 6, 9, 11} THEN 30 ELSE 31

\* d1 >= d2: the comparison with the current day itself counted as later
DateAfter_orSame(d1, d2) ==
    \/ d1[1] > d2[1]
    \/ d1[1] = d2[1] /\ d1[2] > d2[2]
    \/ d1[1] = d2[1] /\ d1[2] = d2[2] /\ d1[3] >= d2[3]

\* d1 > d2 on <<year, month, day>>
DateAfter(d1, d2) ==
    \/ d1[1] > d2[1]
    \/ d1[1] = d2[1] /\ d1[2] > d2[2]
    \/ d1[1] = d2[1] /\ d1[2] = d2[2] /\ d1[3] > d2[3]

\* the alternatives of the %m directive, in the order the regex tries them:
\* 1[0-2] | 0[1-9] | [1-9]; each is the length it consumes or 0
MonthAlt(s, k) ==
    IF k = 1 THEN (IF Len(s) >= 2 /\ s[1] = "1" /\ s[2] \in {"0", "1", "2"} THEN 2 ELSE 0)
    ELSE IF k = 2 THEN (IF Len(s) >= 2 /\ s[1] = "0" /\ IsDigitChar(s[2]) /\ s[2] # "0" THEN 2 ELSE 0)
    ELSE (IF Len(s) >= 1 /\ IsDigitChar(s[1]) /\ s[1] # "0" THEN 1 ELSE 0)

\* the alternatives of the %d directive: 3[01] | [12]\d | 0[1-9] | [1-9] | " "[1-9]
DayAlt(s, k) ==
    IF k = 1 THEN (IF Len(s) >= 2 /\ s[1] = "3" /\ s[2] \in {"0", "1"} THEN 2 ELSE 0)
    ELSE IF k = 2 THEN (IF Len(s) >= 2 /\ s[1] \in {"1", "2"} /\ IsDigitChar(s[2]) THEN 2 ELSE 0)
    ELSE IF k = 3 THEN (IF Len(s) >= 2 /\ s[1] = "0" /\ IsDigitChar(s[2]) /\ s[2] # "0" THEN 2 ELSE 0)
    ELSE IF k = 4 THEN (IF Len(s) >= 1 /\ IsDigitChar(s[1]) /\ s[1] # "0" THEN 1 ELSE 0)
    ELSE (IF Len(s) >= 2 /\ s[1] = " " /\ IsDigitChar(s[2]) /\ s[2] # "0" THEN 2 ELSE 0)

DateError == [exc |-> "ValueError", date |-> <<0, 0, 0>>]

\* datetime.datetime.strptime(s, "%Y%m%d"): the regex match takes the first
\* alternative pair that matches a prefix; unconverted data, year 0 and a day
\* the month does not have raise ValueError
strptime(s) ==
    IF ~(Len(s) >= 4 /\ isdigit(SubSeq(s, 1, 4))) THEN DateError
    ELSE
      LET rest  == SubSeq(s, 5, Len(s))
          after(km) == SubSeq(rest, MonthAlt(rest, km) + 1, Len(rest))
          pairs == {p \in (1..3) \X (1..5) :
                       MonthAlt(rest, p[1]) > 0 /\ DayAlt(after(p[1]), p[2]) > 0}
      IN  IF pairs = {} THEN DateError
          ELSE
            LET p  == CHOOSE q \in pairs : \A r \in pairs :
                         q[1] < r[1] \/ (q[1] = r[1] /\ q[2] <= r[2])
                ml == MonthAlt(rest, p[1])
                dl == DayAlt(after(p[1]), p[2])
                y  == DigitsToInt(SubSeq(s, 1, 4))
                m  == DigitsToInt(SubSeq(rest, 1, ml))
                d  == DigitsToInt(strip(SubSeq(after(p[1]), 1, dl)))
            IN  IF 4 + ml + dl # Len(s) THEN DateError
                ELSE IF y < 1 \/ d > DaysInMonth(y, m) THEN DateError
                ELSE [exc |-> "none", date |-> <<y, m, d>>]

\* birth_date.strftime("%Y-%m-%d"): the C library's %Y writes a year below
\* 1000 without leading zeros
strftime(d) == Decimal(d[1]) \o <<"-">> \o Fmt(d[2], 2) \o <<"-">> \o Fmt(d[3], 2)

(***************************************************************************)
(* IDCardToolkit                                                           *)
(***************************************************************************)
\* dict[key] = value
DictSet(dict, key, value) ==
    [k \in (DOMAIN dict) \cup {key} |-> IF k = key THEN value ELSE dict[k]]

\* dict.get(key, default)
DictGet(dict, key, default) == IF key \in DOMAIN dict THEN dict[key] ELSE default

EmptyDict == [k \in {} |-> <<>>]

\* _flatten_codes: depth-first, each node mapped to the concatenation of the
\* names on its path; a later node with the same code replaces an earlier one
RECURSIVE _flatten_codes(_, _, _)
_flatten_codes(data, parent_name, result) ==
    IF data = <<>> THEN result
    ELSE
      LET item == Head(data)
          current_full_name == parent_name \o item.name
          r1 == DictSet(result, item.code, current_full_name)
          r2 == IF "children" \in DOMAIN item
                THEN _flatten_codes(item.children, current_full_name, r1)
                ELSE r1
      IN  _flatten_codes(Tail(data), parent_name, r2)

\* WEIGHTS with the weights of positions 3 and 4 exchanged
WEIGHTS_exchanged == <<7, 9, 5, 10, 8, 4, 2, 1, 6, 3, 7, 9, 10, 5, 8, 4, 2>>

WEIGHTS == <<7, 9, 10, 5, 8, 4, 2, 1, 6, 3, 7, 9, 10, 5, 8, 4, 2>>

\* CHECKSUM_MAP with its last two entries exchanged
CHECKSUM_MAP_exchanged == <<"1", "0", "X", "9", "8", "7", "6", "5", "4", "2", "3">>

CHECKSUM_MAP == <<"1", "0", "X", "9", "8", "7", "6", "5", "4", "3", "2">>

RECURSIVE SumTo(_, _)
SumTo(id_prefix, n) ==
    IF n = 0 THEN 0
    ELSE SumTo(id_prefix, n - 1) + DigitVal(id_prefix[n]) * WEIGHTS[n]

\* _calculate_checksum
_calculate_checksum(id_prefix) ==
    IF ~(Len(id_prefix) = 17 /\ isdigit(id_prefix))
    THEN [exc |-> "ValueError", val |-> ""]
    ELSE [exc |-> "none", val |-> CHECKSUM_MAP[(SumTo(id_prefix, 17) % 11) + 1]]

Msg(kind, detail) == [kind |-> kind, detail |-> detail]

Pass == Msg("ok", <<>>)

\* validate: the length check
CheckLength(id_number) ==
    IF Len(id_number) # 18 THEN Msg("length", <<>>) ELSE Pass

\* validate: the first 17 characters
CheckPrefix(id_number) ==
    LET prefix == Slice(id_number, 0, Len(id_number) - 1)
    IN  IF ~isdigit(prefix) THEN Msg("format17", <<>>) ELSE Pass

\* validate: the last character
CheckLastChar(id_number) ==
    LET last_char == Last(id_number)
    IN  IF ~(IsDigitChar(last_char) \/ last_char = "X") THEN Msg("format18", <<>>)
        ELSE Pass

\* validate: the region code
CheckAreaCode(id_number, codes) ==
    LET area_code == Slice(id_number, 0, 6)
    IN  IF area_code \notin DOMAIN codes THEN Msg("address", area_code) ELSE Pass

\* validate: the birth date, against the current date
CheckBirthDate(id_number, today) ==
    LET birth_date_str == Slice(id_number, 6, 14)
        birth_date == strptime(birth_date_str)
    IN  IF birth_date.exc # "none" THEN Msg("date_format", birth_date_str)
        ELSE IF DateAfter(birth_date.date, today) THEN Msg("date_future", birth_date_str)
        ELSE Pass

\* CheckChecksum with the check character computed over id_number[1:]
CheckChecksum_shifted(id_number) ==
    LET prefix == Slice(id_number, 1, Len(id_number))
        last_char == Last(id_number)
        expected_checksum == _calculate_checksum(prefix)
    IN  IF expected_checksum.exc # "none" THEN Msg("internal", <<>>)
        ELSE IF last_char # expected_checksum.val
             THEN Msg("checksum", <<expected_checksum.val, last_char>>)
        ELSE Pass

\* validate: the check character
CheckChecksum(id_number) ==
    LET prefix == Slice(id_number, 0, Len(id_number) - 1)
        last_char == Last(id_number)
        expected_checksum == _calculate_checksum(prefix)
    IN  IF expected_checksum.exc # "none" THEN Msg("internal", <<>>)
        ELSE IF last_char # expected_checksum.val
             THEN Msg("checksum", <<expected_checksum.val, last_char>>)
        ELSE Pass

\* validate with the birth date checked before the region code
validate_dateFirst(id_number0, codes, today) ==
    LET id_number == upper(strip(id_number0))
    IN
    IF CheckLength(id_number) # Pass THEN <<FALSE, CheckLength(id_number)>>
    ELSE IF CheckPrefix(id_number) # Pass THEN <<FALSE, CheckPrefix(id_number)>>
    ELSE IF CheckLastChar(id_number) # Pass THEN <<FALSE, CheckLastChar(id_number)>>
    ELSE IF CheckBirthDate(id_number, today) # Pass
         THEN <<FALSE, CheckBirthDate(id_number, today)>>
    ELSE IF CheckAreaCode(id_number, codes) # Pass
         THEN <<FALSE, CheckAreaCode(id_number, codes)>>
    ELSE IF CheckChecksum(id_number) # Pass THEN <<FALSE, CheckChecksum(id_number)>>
    ELSE <<TRUE, Pass>>

\* validate, given the current date: the checks in the order of the code,
\* on the trimmed upper-cased copy
validate(id_number0, codes, today) ==
    LET id_number == upper(strip(id_number0))
    IN
    IF CheckLength(id_number) # Pass THEN <<FALSE, CheckLength(id_number)>>
    ELSE IF CheckPrefix(id_number) # Pass THEN <<FALSE, CheckPrefix(id_number)>>
    ELSE IF CheckLastChar(id_number) # Pass THEN <<FALSE, CheckLastChar(id_number)>>
    ELSE IF CheckAreaCode(id_number, codes) # Pass
         THEN <<FALSE, CheckAreaCode(id_number, codes)>>
    ELSE IF CheckBirthDate(id_number, today) # Pass
         THEN <<FALSE, CheckBirthDate(id_number, today)>>
    ELSE IF CheckChecksum(id_number) # Pass THEN <<FALSE, CheckChecksum(id_number)>>
    ELSE <<TRUE, Pass>>

\* the fallback labels of parse and analyze_population_sample
UnknownLabel(tag, code) == <<"?", tag, "(">> \o code \o <<")">>

UnknownArea == <<"?", "?">>

MaleGender == <<"M", "a", "l", "e">>

FemaleGender == <<"F", "e", "m", "a", "l", "e">>

NoParse == [valid |-> FALSE]

\* parse: validate looks at a normalised copy, the fields are then read
\* from the argument as given
parse(id_number, codes, today) ==
    LET v == validate(id_number, codes, today)
        area_code == Slice(id_number, 0, 6)
        birth_date_str == Slice(id_number, 6, 14)
        province_code == Slice(area_code, 0, 2)
        city_code == Slice(area_code, 0, 4)
        birth_date == strptime(birth_date_str)
        bd == birth_date.date
        age == today[1] - bd[1]
               - (IF DateAfter(<<0, bd[2], bd[3]>>, <<0, today[2], today[3]>>) THEN 1 ELSE 0)
        seq_code == int(Slice(id_number, 14, 17))
        g == int(<<At(id_number, 16)>>)
    IN
    IF ~v[1] THEN [exc |-> "none", val |-> [valid |-> FALSE, error |-> v[2]]]
    ELSE IF birth_date.exc # "none" THEN [exc |-> "ValueError", val |-> NoParse]
    ELSE IF seq_code.exc # "none" \/ g.exc # "none"
         THEN [exc |-> "ValueError", val |-> NoParse]
    ELSE [exc |-> "none",
          val |-> [valid |-> TRUE,
                   address_code |-> area_code,
                   address_info |->
                      [province |-> DictGet(codes, province_code, UnknownLabel("P", province_code)),
                       city     |-> DictGet(codes, city_code, UnknownLabel("C", city_code)),
                       district |-> DictGet(codes, area_code, UnknownLabel("D", area_code))],
                   birth_date |-> strftime(bd),
                   age |-> age,
                   gender |-> IF g.val % 2 # 0 THEN MaleGender ELSE FemaleGender,
                   sequence_code |-> Slice(id_number, 14, 17),
                   checksum |-> Last(id_number)]]

\* the one-element error lists of guess
ErrorList(kind, detail) == << <<"!", kind>> \o detail >>

IsErrorList(l) == Len(l) = 1 /\ Len(l[1]) >= 1 /\ l[1][1] = "!"

RangeStop == 1000

\* len(range(start, 1000, 2))
RangeLen(start) == (RangeStop - start + 1) \div 2

\* guess
guess(area_code, birth_date, gender0, codes) ==
    LET gender == upper(gender0)
        prefix_14 == area_code \o birth_date
        start == IF gender = <<"M">> THEN 1 ELSE 2
        prefix_17(k) == prefix_14 \o Fmt(start + 2 * (k - 1), 3)
    IN
    IF area_code \notin DOMAIN codes
    THEN [exc |-> "none", val |-> ErrorList("a", area_code)]
    ELSE IF strptime(birth_date).exc # "none"
    THEN [exc |-> "none", val |-> ErrorList("d", birth_date)]
    ELSE IF gender \notin {<<"M">>, <<"F">>}
    THEN [exc |-> "none", val |-> ErrorList("g", <<>>)]
    ELSE IF \E k \in 1..RangeLen(start) : _calculate_checksum(prefix_17(k)).exc # "none"
    THEN [exc |-> "ValueError", val |-> <<>>]
    ELSE [exc |-> "none",
          val |-> [k \in 1..RangeLen(start) |->
                      prefix_17(k) \o <<_calculate_checksum(prefix_17(k)).val>>]]

\* max(l) of a non-empty list of numbers
Max(l) == CHOOSE x \in {l[i] : i \in 1..Len(l)} : \A i \in 1..Len(l) : l[i] <= x

\* the first loop of analyze_population_sample: the accepted ids, as given
RECURSIVE ValidIds(_, _, _)
ValidIds(id_list, codes, today) ==
    IF id_list = <<>> THEN <<>>
    ELSE (IF validate(Head(id_list), codes, today)[1] THEN <<Head(id_list)>> ELSE <<>>)
         \o ValidIds(Tail(id_list), codes, today)

\* the first loop of analyze_population_sample: the rejected ids and reasons
RECURSIVE InvalidDetails(_, _, _)
InvalidDetails(id_list, codes, today) ==
    IF id_list = <<>> THEN <<>>
    ELSE (IF validate(Head(id_list), codes, today)[1] THEN <<>>
          ELSE <<[id |-> Head(id_list), reason |-> validate(Head(id_list), codes, today)[2]]>>)
         \o InvalidDetails(Tail(id_list), codes, today)

\* the bucket key read from an id
StatsKey(id_number) == <<Slice(id_number, 0, 6), Slice(id_number, 6, 14)>>

\* the keys of stats in insertion order
RECURSIVE StatsKeys(_, _)
StatsKeys(valid_ids, seen) ==
    IF valid_ids = <<>> THEN seen
    ELSE LET key == StatsKey(Head(valid_ids))
         IN  StatsKeys(Tail(valid_ids),
                       IF \E i \in 1..Len(seen) : seen[i] = key THEN seen
                       ELSE Append(seen, key))

\* stats[key]["male_seqs"] (odd = TRUE) or stats[key]["female_seqs"]
RECURSIVE Seqs(_, _, _)
Seqs(valid_ids, key, odd) ==
    IF valid_ids = <<>> THEN <<>>
    ELSE LET seq == int(Slice(Head(valid_ids), 14, 17)).val
         IN  (IF StatsKey(Head(valid_ids)) = key /\ ((seq % 2 # 0) = odd)
              THEN <<seq>> ELSE <<>>)
             \o Seqs(Tail(valid_ids), key, odd)

\* the report entry of one bucket
ReportEntry(valid_ids, key) ==
    LET male_seqs == Seqs(valid_ids, key, TRUE)
        female_seqs == Seqs(valid_ids, key, FALSE)
        max_male_seq == IF male_seqs # <<>> THEN Max(male_seqs) ELSE 0
        max_female_seq == IF female_seqs # <<>> THEN Max(female_seqs) ELSE 0
        estimated_males == IF max_male_seq > 0 THEN (max_male_seq + 1) \div 2 ELSE 0
        estimated_females == IF max_female_seq > 0 THEN max_female_seq \div 2 ELSE 0
    IN  [sample_count |-> Len(male_seqs) + Len(female_seqs),
         estimated_males |-> estimated_males,
         estimated_females |-> estimated_females,
         estimated_total |-> estimated_males + estimated_females]

\* f"{area_name} ({date_str})"
ReportLabel(key, codes) ==
    DictGet(codes, key[1], UnknownArea) \o <<" ", "(">> \o key[2] \o <<")">>

\* the last loop of analyze_population_sample: one entry per label, a later
\* bucket with the same label replaces the earlier one
RECURSIVE AnalysisReport(_, _, _, _)
AnalysisReport(keys, valid_ids, codes, report) ==
    IF keys = <<>> THEN report
    ELSE AnalysisReport(Tail(keys), valid_ids, codes,
                        DictSet(report, ReportLabel(Head(keys), codes),
                                ReportEntry(valid_ids, Head(keys))))

NoReport == [summary |-> [total_records |-> 0, valid_records |-> 0, invalid_records |-> 0],
             analysis_report |-> EmptyDict,
             invalid_details |-> <<>>]

\* analyze_population_sample
analyze_population_sample(id_list, codes, today) ==
    LET valid_ids == ValidIds(id_list, codes, today)
        invalid_details == InvalidDetails(id_list, codes, today)
    IN
    IF \E i \in 1..Len(valid_ids) : int(Slice(valid_ids[i], 14, 17)).exc # "none"
    THEN [exc |-> "ValueError", val |-> NoReport]
    ELSE [exc |-> "none",
          val |-> [summary |-> [total_records |-> Len(id_list),
                                valid_records |-> Len(valid_ids),
                                invalid_records |-> Len(invalid_details)],
                   analysis_report |->
                       AnalysisReport(StatsKeys(valid_ids, <<>>), valid_ids, codes, EmptyDict),
                   invalid_details |-> invalid_details]]

(***************************************************************************)
(* The region documents the toolkit is constructed from                    *)
(***************************************************************************)
Leaf(code, name) == [code |-> code, name |-> name]

Node(code, name, children) == [code |-> code, name |-> name, children |-> children]

\* province / city / district levels with 2, 4 and 6 digit codes
StandardTree ==
    << Node(Fmt(11, 2), <<"B", "J">>,
            << Node(Fmt(1101, 4), <<"S", "X">>,
                    << Leaf(Fmt(110101, 6), <<"D", "C">>),
                       Leaf(Fmt(110105, 6), <<"C", "Y">>) >>) >>),
       Node(Fmt(12, 2), <<"T", "J">>,
            << Node(Fmt(1201, 4), <<"S", "X">>,
                    << Leaf(Fmt(120105, 6), <<"H", "B">>) >>) >>) >>

\* no city level, and two districts whose concatenated names coincide
AmbiguousTree ==
    << Node(Fmt(11, 2), <<"B">>, << Leaf(Fmt(110105, 6), <<"J", "C">>) >>),
       Node(Fmt(12, 2), <<"B", "J">>, << Leaf(Fmt(120105, 6), <<"C">>) >>) >>

\* area_codes after __init__: the flattened document, or {} when the file
\* is not found
Tables == {_flatten_codes(StandardTree, <<>>, EmptyDict),
           _flatten_codes(AmbiguousTree, <<>>, EmptyDict),
           EmptyDict}

\* the values datetime.datetime.now() is observed at
NowDates == {<<2024, 2, 29>>, <<2025, 6, 15>>}

(***************************************************************************)
(* The arguments the operations are called with                            *)
(***************************************************************************)
MaxBatch == 2

Spaces(n) == [i \in 1..n |-> " "]

\* a 17-digit prefix followed by its check character
WithCheck(p) == p \o <<_calculate_checksum(p).val>>

CheckChars == {DigitChars[i] : i \in 1..10} \cup {"X", "x", "A"}

IdRegions == {Fmt(n, 6) : n \in {110101, 110105, 120105, 999999}}

\* real dates before, on and after the current dates, and strings that are
\* no calendar date
IdDates == {Fmt(n, 8) : n \in {9990101, 19491231, 19900307, 20110115, 20240229,
                               20240301, 20250615, 20260101, 20230229, 19900230,
                               101, 19901301, 19900100}}

IdSeqs == {Fmt(n, 3) : n \in {0, 1, 2, 797}}

Prefixes == {r \o d \o q : r \in IdRegions, d \in IdDates, q \in IdSeqs}

CoreIds == {p \o <<c>> : p \in Prefixes, c \in CheckChars}

LeadPads == {0, 1, 15, 17}

TrailPads == {0, 1}

PaddedIds ==
    {Spaces(l) \o Fmt(r, 6) \o Fmt(d, 8) \o Fmt(q, 3) \o <<c>> \o Spaces(t) :
        r \in {110101, 110105}, d \in {19491231, 19900307, 20110115},
        q \in {2, 797}, c \in {"2", "4", "X", "x"}, l \in LeadPads, t \in TrailPads}

MalformedIds ==
    {<<>>, Spaces(1), Spaces(18), Fmt(123, 3),
     Fmt(110105, 6) \o Fmt(19900307, 8) \o Fmt(797, 3),
     Fmt(110105, 6) \o Fmt(19900307, 8) \o Fmt(797, 3) \o <<"2", "2">>,
     Fmt(110105, 6) \o Fmt(19900307, 8) \o <<"A", "9", "7", "2">>,
     Fmt(110105, 6) \o Fmt(19900307, 8) \o <<"A", "9", "7", "A">>,
     Fmt(110105, 6) \o <<" ">> \o Fmt(9900307, 7) \o Fmt(797, 3) \o <<"2">>,
     Fmt(999999, 6) \o Fmt(19900230, 8) \o <<"A", "9", "7", "A">>,
     [i \in 1..18 |-> "X"]}

IdInputs == CoreIds \cup PaddedIds \cup MalformedIds

PrefixInputs == Prefixes \cup
    {<<>>, Fmt(123, 3), Fmt(110105, 6) \o Fmt(19900307, 8) \o Fmt(79, 2),
     Fmt(110105, 6) \o Fmt(19900307, 8) \o Fmt(7972, 4),
     Fmt(110105, 6) \o Fmt(19900307, 8) \o <<"7", "9", "X">>,
     Fmt(110105, 6) \o Fmt(19900307, 8) \o <<"7", "9", " ">>,
     Spaces(17)}

GuessRegions == IdRegions \cup {<<>>, Fmt(11, 2), Fmt(1101, 4)}

GuessDates == IdDates \cup {<<>>, Fmt(199037, 6), Fmt(1990307, 7),
                            Fmt(199003, 6) \o <<" ", "7">>}

Genders == {<<>>, <<"M">>, <<"F">>, <<"m">>, <<"f">>, <<"Q">>}

SamplePool ==
    {WithCheck(Fmt(r, 6) \o Fmt(19900307, 8) \o Fmt(q, 3)) :
        r \in {110105, 120105}, q \in {0, 1, 2, 797}}
    \cup {Fmt(110105, 6) \o Fmt(19900307, 8) \o Fmt(797, 3) \o <<"7">>,
          Fmt(110105, 6) \o Fmt(19491231, 8) \o Fmt(2, 3) \o <<"x">>,
          Fmt(999999, 6) \o Fmt(19900307, 8) \o Fmt(797, 3) \o <<"2">>,
          Fmt(123, 3),
          Spaces(1) \o WithCheck(Fmt(110105, 6) \o Fmt(19900307, 8) \o Fmt(797, 3)),
          Spaces(17) \o WithCheck(Fmt(110105, 6) \o Fmt(19900307, 8) \o Fmt(797, 3))}

Batches == UNION {[1..n -> SamplePool] : n \in 0..MaxBatch}

(***************************************************************************)
(* The state machine: a toolkit is constructed; the menu loop then takes    *)
(* one operation at a time and shows its result before the next            *)
(***************************************************************************)
Init ==
    /\ area_codes \in Tables
    /\ now \in NowDates
    /\ op = "idle"
    /\ arg = <<>>
    /\ ret = <<>>

Checksum ==
    /\ op = "idle"
    /\ \E p \in PrefixInputs :
           /\ op' = "checksum"
           /\ arg' = <<p>>
           /\ ret' = _calculate_checksum(p)
           /\ UNCHANGED <<area_codes, now>>

Validate ==
    /\ op = "idle"
    /\ \E s \in IdInputs :
           /\ op' = "validate"
           /\ arg' = <<s>>
           /\ ret' = [exc |-> "none", val |-> validate(s, area_codes, now)]
           /\ UNCHANGED <<area_codes, now>>

Parse ==
    /\ op = "idle"
    /\ \E s \in IdInputs :
           /\ op' = "parse"
           /\ arg' = <<s>>
           /\ ret' = parse(s, area_codes, now)
           /\ UNCHANGED <<area_codes, now>>

Guess ==
    /\ op = "idle"
    /\ \E a \in GuessRegions, d \in GuessDates, g \in Genders :
           /\ op' = "guess"
           /\ arg' = <<a, d, g>>
           /\ ret' = guess(a, d, g, area_codes)
           /\ UNCHANGED <<area_codes, now>>

Analyze ==
    /\ op = "idle"
    /\ \E l \in Batches :
           /\ op' = "analyze"
           /\ arg' = <<l>>
           /\ ret' = analyze_population_sample(l, area_codes, now)
           /\ UNCHANGED <<area_codes, now>>

\* the result has been shown, back to the menu
Return ==
    /\ op # "idle"
    /\ op' = "idle"
    /\ arg' = <<>>
    /\ ret' = <<>>
    /\ UNCHANGED <<area_codes, now>>

Next == Checksum \/ Validate \/ Parse \/ Guess \/ Analyze \/ Return

Spec == Init /\ [][Next]_vars

(***************************************************************************)
(* Properties                                                              *)
(***************************************************************************)
\* "11010519491231002"
CanonicalPrefix == Fmt(110105, 6) \o Fmt(19491231, 8) \o Fmt(2, 3)

\* s is 8 digits naming a day of the calendar that is not after day t
RealDateNotAfter(s, t) ==
    /\ Len(s) = 8
    /\ \A i \in 1..8 : IsDigitChar(s[i])
    /\ LET y == DigitsToInt(SubSeq(s, 1, 4))
           m == DigitsToInt(SubSeq(s, 5, 6))
           d == DigitsToInt(SubSeq(s, 7, 8))
       IN  /\ y >= 1 /\ m \in 1..12 /\ d >= 1
           /\ d <= (IF m = 2 THEN (IF (y % 4 = 0 /\ y % 100 # 0) \/ y % 400 = 0 THEN 29 ELSE 28)
                    ELSE IF m \in {4, 6, 9, 11} THEN 30 ELSE 31)
           /\ 10000 * y + 100 * m + d <= 10000 * t[1] + 100 * t[2] + t[3]

\* the day a string "Y-M-D" names
DashedDate(s) ==
    LET dash == {i \in 1..Len(s) : s[i] = "-"}
        i1 == CHOOSE i \in dash : \A j \in dash : i <= j
        i2 == CHOOSE i \in dash : \A j \in dash : i >= j
    IN  <<DigitsToInt(SubSeq(s, 1, i1 - 1)), DigitsToInt(SubSeq(s, i1 + 1, i2 - 1)),
          DigitsToInt(SubSeq(s, i2 + 1, Len(s)))>>

\* the day 8 digits YYYYMMDD name
DigitsDate(s) ==
    <<DigitsToInt(SubSeq(s, 1, 4)), DigitsToInt(SubSeq(s, 5, 6)), DigitsToInt(SubSeq(s, 7, 8))>>

\* C3: for a 17-digit prefix p with a region code of the table and a real
\* birth date not later than the current date, validate accepts p followed by
\* its check character and rejects p followed by any other of 0..9, X with a
\* checksum reason.
C3_ChecksumRoundTrip ==
    op = "validate" =>
        LET s == arg[1]
        IN  ( /\ Len(s) = 18
              /\ \A i \in 1..17 : IsDigitChar(s[i])
              /\ SubSeq(s, 1, 6) \in DOMAIN area_codes
              /\ RealDateNotAfter(SubSeq(s, 7, 14), now)
              /\ (IsDigitChar(s[18]) \/ s[18] = "X") )
            => IF s[18] = _calculate_checksum(SubSeq(s, 1, 17)).val
               THEN ret.val[1] = TRUE
               ELSE ret.val[1] = FALSE /\ ret.val[2].kind = "checksum"

\* a prefix with a known region, born on the current day, was accepted with
\* its check character
C3_Witness ==
    /\ op = "validate"
    /\ Len(arg[1]) = 18
    /\ SubSeq(arg[1], 1, 6) \in DOMAIN area_codes
    /\ SubSeq(arg[1], 7, 14) = Fmt(10000 * now[1] + 100 * now[2] + now[3], 8)
    /\ arg[1][18] = "X"
    /\ ret.val[1] = TRUE

\* C4: the check character of a 17-digit string is the entry of the table
\* 1 0 X 9 8 7 6 5 4 3 2 at the weighted digit sum modulo 11, it is X for
\* 11010519491231002, and any other argument raises the invalid-input error.
C4_ChecksumFormula ==
    op = "checksum" =>
        LET p == arg[1]
            w == <<7, 9, 10, 5, 8, 4, 2, 1, 6, 3, 7, 9, 10, 5, 8, 4, 2>>
            table == <<"1", "0", "X", "9", "8", "7", "6", "5", "4", "3", "2">>
            sum[n \in 0..17] == IF n = 0 THEN 0 ELSE sum[n - 1] + DigitVal(p[n]) * w[n]
        IN  /\ IF Len(p) = 17 /\ \A i \in 1..17 : IsDigitChar(p[i])
               THEN ret.exc = "none" /\ ret.val = table[(sum[17] % 11) + 1]
               ELSE ret.exc = "ValueError"
            /\ p = CanonicalPrefix => ret.val = "X"

\* the check character of the canonical prefix was computed
C4_Witness ==
    op = "checksum" /\ arg[1] = CanonicalPrefix /\ ret.exc = "none" /\ ret.val = "X"

\* C5: validate reports the first failing check in the order length, first
\* 17 characters, last character, region code, birth date, check character,
\* and the success reason only when none fails; so a well-formed id with an
\* unknown region gets the address reason and one with a known region and a
\* future birth date gets a date reason.
C5_FirstFailure ==
    op = "validate" =>
        LET t == upper(strip(arg[1]))
            kind == ret.val[2].kind
            badLength == Len(t) # 18
            badPrefix == ~(\A i \in 1..17 : IsDigitChar(t[i]))
            badLast == ~(IsDigitChar(t[18]) \/ t[18] = "X")
            badArea == SubSeq(t, 1, 6) \notin DOMAIN area_codes
            badDate == ~RealDateNotAfter(SubSeq(t, 7, 14), now)
            badCheck == t[18] # _calculate_checksum(SubSeq(t, 1, 17)).val
        IN  /\ kind = "length" <=> badLength
            /\ ~badLength =>
                /\ kind = "format17" <=> badPrefix
                /\ ~badPrefix =>
                    /\ kind = "format18" <=> badLast
                    /\ ~badLast =>
                        /\ kind = "address" <=> badArea
                        /\ ~badArea =>
                            /\ kind \in {"date_format", "date_future"} <=> badDate
                            /\ ~badDate =>
                                /\ kind = "checksum" <=> badCheck
                                /\ kind = "ok" <=> ~badCheck
            /\ ret.val[1] <=> kind = "ok"

\* an id with an unknown region, a future birth date and a wrong check
\* character was rejected for its region
C5_Witness ==
    /\ op = "validate"
    /\ arg[1] = Fmt(999999, 6) \o Fmt(20260101, 8) \o Fmt(797, 3) \o <<"0">>
    /\ ret.val[2].kind = "address"

\* the arguments pass the three guards of guess
GuessAccepts ==
    /\ arg[1] \in DOMAIN area_codes
    /\ strptime(arg[2]).exc = "none"
    /\ upper(arg[3]) \in {<<"M">>, <<"F">>}

\* guess returned candidates, not the one-element error list
GuessReturnedCandidates ==
    op = "guess" /\ ret.exc = "none" /\ ~IsErrorList(ret.val)

\* every returned id is accepted by validate and parses to the requested
\* sex and birth date
CandidatesRoundTrip ==
    \A i \in 1..Len(ret.val) :
        LET v == validate(ret.val[i], area_codes, now)
            q == parse(ret.val[i], area_codes, now)
        IN  /\ v[1]
            /\ q.exc = "none"
            /\ q.val.valid
            /\ q.val.gender = (IF upper(arg[3]) = <<"M">> THEN MaleGender ELSE FemaleGender)
            /\ DashedDate(q.val.birth_date) = DigitsDate(arg[2])

\* C1 as stated: whenever guess returns candidates, for any real calendar
\* date including one later than the current date, every candidate is
\* accepted by validate and parses to the requested sex and birth date.
C1_AnyDate == GuessReturnedCandidates => CandidatesRoundTrip

\* C1 amended: whenever guess returns candidates for a 6-digit region code
\* of the table and a real calendar date not later than the current date,
\* every candidate is accepted by validate and parses to the requested sex
\* and birth date.
C1_GuessRoundTrip ==
    (GuessReturnedCandidates /\ Len(arg[1]) = 6 /\ RealDateNotAfter(arg[2], now))
        => CandidatesRoundTrip

\* candidates were returned for a woman born on the current day
C1_Witness ==
    /\ GuessReturnedCandidates
    /\ Len(arg[1]) = 6
    /\ arg[2] = Fmt(10000 * now[1] + 100 * now[2] + now[3], 8)
    /\ arg[3] = <<"f">>
    /\ Len(ret.val) > 1

\* C2: for accepted arguments guess returns 500 candidates for male with
\* sequence codes 001, 003 .. 999 and 499 for female with 002, 004 .. 998,
\* strictly ascending, without duplicates and without sequence code 000.
C2_CandidateCount ==
    (op = "guess" /\ GuessAccepts) =>
        LET male == upper(arg[3]) = <<"M">>
            seq(i) == DigitsToInt(SubSeq(ret.val[i], Len(ret.val[i]) - 3, Len(ret.val[i]) - 1))
        IN  /\ ret.exc = "none"
            /\ Len(ret.val) = (IF male THEN 500 ELSE 499)
            /\ \A i \in 1..Len(ret.val) : seq(i) = (IF male THEN 2 * i - 1 ELSE 2 * i)
            /\ \A i \in 1..(Len(ret.val) - 1) : seq(i) < seq(i + 1)
            /\ \A i, j \in 1..Len(ret.val) : i # j => ret.val[i] # ret.val[j]
            /\ \A i \in 1..Len(ret.val) : seq(i) # 0

\* C9: guess never raises; for accepted arguments every element is the
\* region code, the birth-date digits, a 3-digit sequence code and the check
\* character of those 17 digits, 18 characters in all; for any other
\* arguments the result is the one-element error list.
C9_GuessNeverRaises ==
    op = "guess" =>
        /\ ret.exc = "none"
        /\ IF GuessAccepts
           THEN \A i \in 1..Len(ret.val) :
                    LET id == ret.val[i]
                    IN  /\ Len(id) = 18
                        /\ SubSeq(id, 1, Len(arg[1])) = arg[1]
                        /\ SubSeq(id, Len(arg[1]) + 1, Len(arg[1]) + Len(arg[2])) = arg[2]
                        /\ \A k \in 15..17 : IsDigitChar(id[k])
                        /\ id[18] = _calculate_checksum(SubSeq(id, 1, 17)).val
           ELSE IsErrorList(ret.val)

\* C6: validate, parse and analyze_population_sample never raise on a bad
\* record; every rejected record of a batch appears in invalid_details with
\* its reason; validate("123") is rejected with the length reason.
C6_FailuresAreData ==
    /\ op \in {"validate", "parse", "analyze"} => ret.exc = "none"
    /\ op = "analyze" =>
           \A i \in 1..Len(arg[1]) :
               LET v == validate(arg[1][i], area_codes, now)
               IN  ~v[1] => \E j \in 1..Len(ret.val.invalid_details) :
                                ret.val.invalid_details[j] = [id |-> arg[1][i], reason |-> v[2]]
    /\ (op = "validate" /\ arg[1] = Fmt(123, 3)) =>
           ret.val[1] = FALSE /\ ret.val[2].kind = "length"

\* "110105199003077977", the id of the example
ExampleId == Fmt(110105, 6) \o Fmt(19900307, 8) \o Fmt(797, 3) \o <<"7">>

\* "110105199003077972", the same 17 digits with their check character
ExampleIdChecked == Fmt(110105, 6) \o Fmt(19900307, 8) \o Fmt(797, 3) \o <<"2">>

\* the report of a one-record batch whose record was accepted
OneValidRecord ==
    /\ ret.exc = "none"
    /\ ret.val.summary = [total_records |-> 1, valid_records |-> 1, invalid_records |-> 0]
    /\ ret.val.invalid_details = <<>>
    /\ Cardinality(DOMAIN ret.val.analysis_report) = 1
    /\ \A l \in DOMAIN ret.val.analysis_report : ret.val.analysis_report[l].sample_count = 1

\* C7 as stated: the batch <<"110105199003077977">>, with 110105 in the
\* table and a current date after 1990-03-07, is reported as total 1, valid 1,
\* invalid 0, no invalid details and exactly one bucket of sample count 1.
C7_Example ==
    (op = "analyze" /\ arg[1] = <<ExampleId>> /\ Fmt(110105, 6) \in DOMAIN area_codes)
        => OneValidRecord

\* C7 amended: that report is the one of the batch <<"110105199003077972">>;
\* the batch <<"110105199003077977">> is reported as total 1, valid 0,
\* invalid 1, one invalid detail with the checksum reason (expected 2, given
\* 7) and no bucket.
C7_ExampleChecked ==
    (op = "analyze" /\ Fmt(110105, 6) \in DOMAIN area_codes) =>
        /\ arg[1] = <<ExampleIdChecked>> => OneValidRecord
        /\ arg[1] = <<ExampleId>> =>
               /\ ret.exc = "none"
               /\ ret.val.summary =
                      [total_records |-> 1, valid_records |-> 0, invalid_records |-> 1]
               /\ ret.val.invalid_details =
                      <<[id |-> ExampleId, reason |-> Msg("checksum", <<"2", "7">>)]>>
               /\ DOMAIN ret.val.analysis_report = {}

\* the one-record batch of the checked example id was analyzed
C7_Witness ==
    /\ op = "analyze"
    /\ arg[1] = <<ExampleIdChecked>>
    /\ Fmt(110105, 6) \in DOMAIN area_codes
    /\ ret.val.summary.valid_records = 1

\* C8: the report has one entry per group (regionCode, birthDateDigits) of
\* the valid ids, with estimatedMale = (maxOddSeq + 1) div 2 or 0,
\* estimatedFemale = maxEvenSeq div 2 or 0, estimatedTotal their sum and
\* sampleCount the number of valid ids of the group; total = valid + invalid
\* = length of the batch and the sample counts add up to valid.
C8_GroupEstimates ==
    op = "analyze" =>
        LET ids == arg[1]
            valid == {i \in 1..Len(ids) : validate(ids[i], area_codes, now)[1]}
            norm(i) == upper(strip(ids[i]))
            groupOf(i) == <<SubSeq(norm(i), 1, 6), SubSeq(norm(i), 7, 14)>>
            groups == {groupOf(i) : i \in valid}
            seqs(g, r) == {DigitsToInt(SubSeq(norm(i), 15, 17)) : i \in {j \in valid : groupOf(j) = g}}
                             \cap {n \in 0..999 : n % 2 = r}
            maxOf(S) == CHOOSE x \in S : \A y \in S : y <= x
            males(g) == IF seqs(g, 1) # {} THEN (maxOf(seqs(g, 1)) + 1) \div 2 ELSE 0
            females(g) == IF seqs(g, 0) # {} THEN maxOf(seqs(g, 0)) \div 2 ELSE 0
            report == ret.val.analysis_report
            total[S \in SUBSET DOMAIN report] ==
                IF S = {} THEN 0
                ELSE LET l == CHOOSE x \in S : TRUE
                     IN  report[l].sample_count + total[S \ {l}]
        IN  /\ ret.exc = "none"
            /\ ret.val.summary.total_records = Len(ids)
            /\ ret.val.summary.valid_records + ret.val.summary.invalid_records = Len(ids)
            /\ ret.val.summary.valid_records = Cardinality(valid)
            /\ Cardinality(DOMAIN report) = Cardinality(groups)
            /\ \A g \in groups :
                   /\ ReportLabel(g, area_codes) \in DOMAIN report
                   /\ report[ReportLabel(g, area_codes)] =
                          [sample_count |-> Cardinality({i \in valid : groupOf(i) = g}),
                           estimated_males |-> males(g),
                           estimated_females |-> females(g),
                           estimated_total |-> males(g) + females(g)]
            /\ total[DOMAIN report] = ret.val.summary.valid_records

\* C10: for every string validate accepts, parse reports the region code,
\* birth date, sequence code, sex and check character of the trimmed
\* upper-cased string, and analyze_population_sample counts it in the bucket
\* of those characters with the sequence value of characters 14-16.
C10_SameCharacters ==
    /\ (op = "parse" /\ validate(arg[1], area_codes, now)[1]) =>
           LET t == upper(strip(arg[1]))
           IN  /\ ret.exc = "none"
               /\ ret.val.valid
               /\ ret.val.address_code = SubSeq(t, 1, 6)
               /\ DashedDate(ret.val.birth_date) = DigitsDate(SubSeq(t, 7, 14))
               /\ ret.val.sequence_code = SubSeq(t, 15, 17)
               /\ ret.val.gender = (IF DigitVal(t[17]) % 2 # 0 THEN MaleGender ELSE FemaleGender)
               /\ ret.val.checksum = t[18]
    /\ op = "analyze" =>
           /\ ret.exc = "none"
           /\ \A i \in 1..Len(arg[1]) :
                  validate(arg[1][i], area_codes, now)[1] =>
                      LET t == upper(strip(arg[1][i]))
                          label == ReportLabel(<<SubSeq(t, 1, 6), SubSeq(t, 7, 14)>>, area_codes)
                          seq == DigitsToInt(SubSeq(t, 15, 17))
                      IN  /\ label \in DOMAIN ret.val.analysis_report
                          /\ IF seq % 2 # 0
                             THEN ret.val.analysis_report[label].estimated_males >= (seq + 1) \div 2
                             ELSE ret.val.analysis_report[label].estimated_females >= seq \div 2

====
